---------------------------- MODULE Spec2Model ----------------------------
(***************************************************************************)
(* World Happiness dashboard (src/app.py): one run of the Streamlit script *)
(* over a dataset df and the sidebar widget values.  The script runs top   *)
(* to bottom: sidebar, then the tabs Overview (P1), Rankings (P2),         *)
(* Changes (P3), Drivers (P4, P6, P5), Groups (P7, P8, P9) and Map.        *)
(* st.stop() ends the run at the point where it is called.                 *)
(*                                                                         *)
(* Numbers: a cell (a pandas float) is a pair <<num, den>>, the rational   *)
(* num/den with den > 0; den = 0 is the missing value NaN.  Means are      *)
(* exact rationals.  A country name is a number, the numeric order being   *)
(* the alphabetical order of the names.                                    *)
(***************************************************************************)
EXTENDS Integers, Sequences, FiniteSets, TLC

VARIABLES
    df,                 \* the dataset: [columns, rows]
    pc,                 \* position of the script
    year_min, year_max, \* the year range slider's value
    selection,          \* the multiselect's value, in the user's order
    top_n, change_n, max_countries,   \* the chart settings sliders
    df_f,               \* the Working Subset
    selected_countries, \* the selection after the cap
    cap_warning,        \* st.sidebar.warning was shown
    status,             \* what each analysis reported in this run
    missing,            \* the columns each analysis named as missing
    global_series, country_series, plot_df,          \* P1
    country_avg, top_countries, bottom_countries,    \* P2
    change_df, inc, dec,                             \* P3
    country_full, fig4_df, long_df, corr_df,         \* Drivers tab
    cl7, high_life_low_gdp,                          \* P7
    long_group,                                      \* P8
    long_yearly,                                     \* P9
    map_df                                           \* Map

vars == <<df, pc, year_min, year_max, selection, top_n, change_n,
          max_countries, df_f, selected_countries, cap_warning, status,
          missing, global_series, country_series, plot_df, country_avg,
          top_countries, bottom_countries, change_df, inc, dec,
          country_full, fig4_df, long_df, corr_df, cl7, high_life_low_gdp,
          long_group, long_yearly, map_df>>

-----------------------------------------------------------------------------
(* Floats *)

NaN == <<0, 0>>
Num(v) == <<v, 1>>
IsNaN(x) == x[2] = 0

Lt(x, y) == ~IsNaN(x) /\ ~IsNaN(y) /\ x[1] * y[2] < y[1] * x[2]
Gt(x, y) == Lt(y, x)
Eq(x, y) == ~IsNaN(x) /\ ~IsNaN(y) /\ x[1] * y[2] = y[1] * x[2]
Ge(x, y) == Gt(x, y) \/ Eq(x, y)

Add(x, y) == IF IsNaN(x) \/ IsNaN(y) THEN NaN
             ELSE <<x[1] * y[2] + y[1] * x[2], x[2] * y[2]>>
Sub(x, y) == IF IsNaN(x) \/ IsNaN(y) THEN NaN
             ELSE <<x[1] * y[2] - y[1] * x[2], x[2] * y[2]>>
Mul(x, y) == IF IsNaN(x) \/ IsNaN(y) THEN NaN
             ELSE <<x[1] * y[1], x[2] * y[2]>>
DivInt(x, n) == IF IsNaN(x) \/ n = 0 THEN NaN ELSE <<x[1], x[2] * n>>

-----------------------------------------------------------------------------
(* Sequences *)

Range(s) == {s[i] : i \in 1..Len(s)}

Reverse(s) == [i \in 1..Len(s) |-> s[Len(s) + 1 - i]]

RECURSIVE SetToSortedSeq(_)
\* the elements of a finite set of integers, ascending: sorted(set)
SetToSortedSeq(S) ==
    IF S = {} THEN <<>>
    ELSE LET m == CHOOSE x \in S : \A y \in S : x <= y
         IN  <<m>> \o SetToSortedSeq(S \ {m})

Min2(a, b) == IF a < b THEN a ELSE b

\* DataFrame.head(n) and DataFrame.tail(n), n >= 0
Head_n(s, n) == SubSeq(s, 1, Min2(n, Len(s)))
Tail_n(s, n) == SubSeq(s, Len(s) - Min2(n, Len(s)) + 1, Len(s))

RECURSIVE SumSeq(_)
SumSeq(s) == IF s = <<>> THEN Num(0) ELSE Add(Head(s), SumSeq(Tail(s)))

\* Series.mean(): the mean of the non-missing values, NaN when there is none
Mean(s) ==
    LET nn == SelectSeq(s, LAMBDA x : ~IsNaN(x))
    IN  DivInt(SumSeq(nn), Len(nn))

RECURSIVE InsertAsc(_, _, _)
\* i goes before the first index whose key is greater (a stable insertion)
InsertAsc(sorted, i, keys) ==
    IF sorted = <<>> THEN <<i>>
    ELSE IF Lt(keys[i], keys[Head(sorted)]) THEN <<i>> \o sorted
    ELSE <<Head(sorted)>> \o InsertAsc(Tail(sorted), i, keys)

RECURSIVE InsertDesc(_, _, _)
InsertDesc(sorted, i, keys) ==
    IF sorted = <<>> THEN <<i>>
    ELSE IF Gt(keys[i], keys[Head(sorted)]) THEN <<i>> \o sorted
    ELSE <<Head(sorted)>> \o InsertDesc(Tail(sorted), i, keys)

RECURSIVE SortIdx(_, _, _, _)
SortIdx(keys, ascending, i, acc) ==
    IF i > Len(keys) THEN acc
    ELSE IF IsNaN(keys[i]) THEN SortIdx(keys, ascending, i + 1, acc)
    ELSE SortIdx(keys, ascending, i + 1,
                 IF ascending THEN InsertAsc(acc, i, keys)
                 ELSE InsertDesc(acc, i, keys))

\* the row order of sort_values(by, ascending): the non-missing keys in order,
\* equal keys in their original order, the missing keys last in original order
nargsort(keys, ascending) ==
    LET all == [i \in 1..Len(keys) |-> i]
    IN  SortIdx(keys, ascending, 1, <<>>)
            \o SelectSeq(all, LAMBDA i : IsNaN(keys[i]))

sort_values(rows, keys, ascending) ==
    LET ix == nargsort(keys, ascending)
    IN  [i \in 1..Len(rows) |-> rows[ix[i]]]

\* Series.median(): over the non-missing values
median(s) ==
    LET nn == SelectSeq(s, LAMBDA x : ~IsNaN(x))
        o  == sort_values(nn, nn, TRUE)
        n  == Len(o)
    IN  IF n = 0 THEN NaN
        ELSE IF n % 2 = 1 THEN o[(n + 1) \div 2]
        ELSE DivInt(Add(o[n \div 2], o[n \div 2 + 1]), 2)

-----------------------------------------------------------------------------
(* The dataset *)

FactorCols == {"gdp", "social_support", "healthy_life", "freedom",
               "generosity", "corruption"}

\* the factors in the order the script lists them (lines 230, 286, 431, 469)
FactorSeq == <<"gdp", "social_support", "healthy_life", "freedom",
               "generosity", "corruption">>

Analyses == {"P1", "P2", "P3", "P4", "P5", "P6", "P7", "P8", "P9", "Map"}

\* the two years P3 compares
YearLow == 2019
YearHigh == 2024

MkRow(c, y, l, g) ==
    [country |-> c, year |-> y, life |-> l,
     fac |-> [f \in FactorCols |-> IF f = "gdp" THEN g ELSE Num(1)]]

MkDf(cols, rows) == [columns |-> cols, rows |-> rows]

Col(rows, F(_)) == [i \in 1..Len(rows) |-> F(rows[i])]

YearsOf(rows) == {rows[i].year : i \in 1..Len(rows)}
CountriesOf(rows) == {rows[i].country : i \in 1..Len(rows)}

\* line 18: years = sorted(df["Year"].unique())
years == SetToSortedSeq(YearsOf(df.rows))

\* a mutant of YearInRange: the upper end of the range left out
YearInRangeOpen(y, lo, hi) == y >= lo /\ y < hi

\* line 25: (df["Year"] >= year_min) & (df["Year"] <= year_max)
YearInRange(y, lo, hi) == y >= lo /\ y <= hi

\* line 25: df_f = df[...].copy()
FilterYears(d, lo, hi) ==
    MkDf(d.columns, SelectSeq(d.rows, LAMBDA r : YearInRange(r.year, lo, hi)))

\* line 28: countries = sorted(df_f["Country name"].unique())
CountryOptions(d) == SetToSortedSeq(CountriesOf(d.rows))

\* a mutant of CapSelection: the last cap elements kept
CapSelectionLast(sel, cap) == IF Len(sel) > cap THEN Tail_n(sel, cap) ELSE sel

\* lines 42-44: selected_countries = selected_countries[:max_countries]
CapSelection(sel, cap) == IF Len(sel) > cap THEN SubSeq(sel, 1, cap) ELSE sel

\* line 42: the condition of the warning
CapExceeded(sel, cap) == Len(sel) > cap

-----------------------------------------------------------------------------
(* P1: trend over time *)

\* the "Country name" of the global series (line 65)
GlobalAverage == 0

RowsOfYear(rows, y) == SelectSeq(rows, LAMBDA r : r.year = y)
RowsOfCountry(rows, c) == SelectSeq(rows, LAMBDA r : r.country = c)

Life(r) == r.life
Gdp(r) == r.fac["gdp"]

\* lines 62-67: df_f.groupby("Year")[life].mean(), one row per year, by year
GlobalSeries(d) ==
    LET ys == SetToSortedSeq(YearsOf(d.rows))
    IN  [i \in 1..Len(ys) |->
            [year |-> ys[i], country |-> GlobalAverage,
             life_eval |-> Mean(Col(RowsOfYear(d.rows, ys[i]), Life))]]

\* a mutant of CountrySeries: the rows of every country, selected or not
CountrySeriesAll(d, sel) ==
    [i \in 1..Len(d.rows) |->
        [year |-> d.rows[i].year, country |-> d.rows[i].country,
         life_eval |-> d.rows[i].life]]

\* lines 70-74: df_f[df_f["Country name"].isin(selected_countries)]
CountrySeries(d, sel) ==
    LET rs == SelectSeq(d.rows, LAMBDA r : r.country \in Range(sel))
    IN  [i \in 1..Len(rs) |->
            [year |-> rs[i].year, country |-> rs[i].country,
             life_eval |-> rs[i].life]]

-----------------------------------------------------------------------------
(* P2: top and bottom ranking *)

\* lines 102-107: groupby("Country name")[life].mean(), one row per country
\* in the order of the names, then sort_values("avg_life_eval", descending)
CountryMeans(d) ==
    LET cs == SetToSortedSeq(CountriesOf(d.rows))
    IN  [i \in 1..Len(cs) |->
            [country |-> cs[i],
             avg_life_eval |-> Mean(Col(RowsOfCountry(d.rows, cs[i]), Life))]]

AvgLifeEval(r) == r.avg_life_eval

\* a mutant of CountryAvg: sorted ascending
CountryAvgAscending(d) ==
    sort_values(CountryMeans(d), Col(CountryMeans(d), AvgLifeEval), TRUE)

CountryAvg(d) ==
    sort_values(CountryMeans(d), Col(CountryMeans(d), AvgLifeEval), FALSE)

WithGroup(rows, g) ==
    [i \in 1..Len(rows) |->
        [country |-> rows[i].country,
         avg_life_eval |-> rows[i].avg_life_eval, Group |-> g]]

\* lines 109-112
TopCountries(avg, n) == WithGroup(Head_n(avg, n), "Top countries")
BottomCountries(avg, n) == WithGroup(Tail_n(avg, n), "Bottom countries")

\* line 113: plot_rank = pd.concat([top_countries, bottom_countries])
plot_rank == top_countries \o bottom_countries

-----------------------------------------------------------------------------
(* P3: change 2019 -> 2024 *)

\* a mutant of YearsMissing: unavailable only when both years are absent
YearsMissingBoth(d) ==
    YearLow \notin YearsOf(d.rows) /\ YearHigh \notin YearsOf(d.rows)

\* lines 132-133: 2019 not in years_available or 2024 not in years_available
YearsMissing(d) ==
    YearLow \notin YearsOf(d.rows) \/ YearHigh \notin YearsOf(d.rows)

RECURSIVE MergeRows(_, _)
\* line 140: df_2019.merge(df_2024, on="Country name"): an inner join, in the
\* order of the left rows, each with its matches in the order of the right
MergeRows(left, right) ==
    IF left = <<>> THEN <<>>
    ELSE LET l == Head(left)
             m == SelectSeq(right, LAMBDA r : r.country = l.country)
         IN  [i \in 1..Len(m) |->
                 [country |-> l.country, life_2019 |-> l.life,
                  life_2024 |-> m[i].life]]
             \o MergeRows(Tail(left), right)

\* lines 147-150: change = life_2024 - life_2019
Change(r) == Sub(r.life_2024, r.life_2019)

\* a mutant of Merged: a left join, the unmatched 2019 rows kept
MergedLeft(d) ==
    LET l == RowsOfYear(d.rows, YearLow)
        m == MergeRows(l, RowsOfYear(d.rows, YearHigh))
        u == SelectSeq(l, LAMBDA r :
                 r.country \notin CountriesOf(RowsOfYear(d.rows, YearHigh)))
    IN  m \o [i \in 1..Len(u) |->
                [country |-> u[i].country, life_2019 |-> u[i].life,
                 life_2024 |-> NaN]]

\* lines 137-140
Merged(d) ==
    MergeRows(RowsOfYear(d.rows, YearLow), RowsOfYear(d.rows, YearHigh))

ChangeDf(d) ==
    LET m == Merged(d)
    IN  [i \in 1..Len(m) |->
            [country |-> m[i].country, life_2019 |-> m[i].life_2019,
             life_2024 |-> m[i].life_2024, change |-> Change(m[i])]]

ChangeOf(r) == r.change

\* line 152: change_df.sort_values("change", ascending=False).head(change_n)
Inc(cdf, n) == Head_n(sort_values(cdf, Col(cdf, ChangeOf), FALSE), n)
\* line 153: change_df.sort_values("change", ascending=True).head(change_n)
Dec(cdf, n) == Head_n(sort_values(cdf, Col(cdf, ChangeOf), TRUE), n)

\* line 154: plot_change = pd.concat([inc, dec])
plot_change == inc \o dec

-----------------------------------------------------------------------------
(* Drivers tab: P4, P6, P5 *)

\* lines 190-201: the required columns that df_f lacks ("Country name" and
\* the life evaluation are columns of every dataset the script gets this far
\* with: lines 25, 28 and 63 read them)
MissingCols(d) == FactorCols \ d.columns

\* lines 207-234: the country means of the life evaluation and of the six
\* factors, without the countries whose mean life evaluation is missing
CountryFull(d) ==
    LET cs  == SetToSortedSeq(CountriesOf(d.rows))
        all == [i \in 1..Len(cs) |->
                   LET rs == RowsOfCountry(d.rows, cs[i])
                   IN  [country |-> cs[i],
                        life_eval |-> Mean(Col(rs, Life)),
                        fac |-> [f \in FactorCols |->
                                   Mean([j \in 1..Len(rs) |-> rs[j].fac[f]])]]]
    IN  SelectSeq(all, LAMBDA r : ~IsNaN(r.life_eval))

\* line 244: country_full.dropna(subset=["gdp"])
P4Rows(cf) == SelectSeq(cf, LAMBDA r : ~IsNaN(r.fac["gdp"]))

RECURSIVE Concat(_)
\* pd.concat of a list of tables
Concat(ss) == IF ss = <<>> THEN <<>> ELSE Head(ss) \o Concat(Tail(ss))

\* lines 258-268: country_full.melt(value_vars=["gdp", "social_support"]):
\* the rows of the first factor, then those of the second, by country
LongDf(cf) ==
    Concat([k \in 1..2 |->
               [i \in 1..Len(cf) |->
                   [country |-> cf[i].country, life_eval |-> cf[i].life_eval,
                    Factor |-> FactorSeq[k],
                    value |-> cf[i].fac[FactorSeq[k]]]]])

\* the least number of paired observations a correlation is computed from
\* (line 291)
MinPairs == 3

\* line 294: tmp[f].corr(tmp["life_eval"]), Pearson's r over the rows tmp.
\* With n rows, cov = n*Sxy - Sx*Sy, vx = n*Sxx - Sx*Sx, vy = n*Syy - Sy*Sy,
\* r = cov / sqrt(vx * vy), missing when vx or vy is 0.  The model holds
\* r * |r| = sign(cov) * cov^2 / (vx * vy), which orders as r does.
Pearson(xs, ys) ==
    LET n   == Num(Len(xs))
        Sx  == SumSeq(xs)
        Sy  == SumSeq(ys)
        Sxx == SumSeq([i \in 1..Len(xs) |-> Mul(xs[i], xs[i])])
        Syy == SumSeq([i \in 1..Len(xs) |-> Mul(ys[i], ys[i])])
        Sxy == SumSeq([i \in 1..Len(xs) |-> Mul(xs[i], ys[i])])
        cov == Sub(Mul(n, Sxy), Mul(Sx, Sy))
        vx  == Sub(Mul(n, Sxx), Mul(Sx, Sx))
        vy  == Sub(Mul(n, Syy), Mul(Sy, Sy))
        sq  == Mul(cov, cov)
        vv  == Mul(vx, vy)
    IN  IF vx[1] = 0 \/ vy[1] = 0 THEN NaN
        ELSE <<(IF cov[1] < 0 THEN -1 ELSE 1) * sq[1] * vv[2], sq[2] * vv[1]>>

\* lines 289-295: one row per factor, the correlation None with fewer than
\* three countries where the factor and the life evaluation are both there
CorrRows(cf) ==
    [k \in 1..Len(FactorSeq) |->
        LET f   == FactorSeq[k]
            tmp == SelectSeq(cf, LAMBDA r :
                       ~IsNaN(r.fac[f]) /\ ~IsNaN(r.life_eval))
        IN  [Factor |-> f,
             Correlation |->
                 IF Len(tmp) < MinPairs THEN NaN
                 ELSE Pearson([i \in 1..Len(tmp) |-> tmp[i].fac[f]],
                              Col(tmp, LAMBDA r : r.life_eval))]]

CorrelationOf(r) == r.Correlation

\* a mutant of CorrDf: the rows from the lowest correlation to the highest
CorrDfAscending(cf) ==
    LET rows == SelectSeq(CorrRows(cf), LAMBDA r : ~IsNaN(r.Correlation))
    IN  sort_values(rows, Col(rows, CorrelationOf), TRUE)

\* line 297: pd.DataFrame(corr_rows).dropna().sort_values("Correlation",
\* ascending=False)
CorrDf(cf) ==
    LET rows == SelectSeq(CorrRows(cf), LAMBDA r : ~IsNaN(r.Correlation))
    IN  sort_values(rows, Col(rows, CorrelationOf), FALSE)

-----------------------------------------------------------------------------
(* Groups tab: P7, P8, P9 *)

\* lines 331-345: the country means of life evaluation and GDP, without the
\* countries where either is missing
Cl7(d) ==
    LET cs  == SetToSortedSeq(CountriesOf(d.rows))
        all == [i \in 1..Len(cs) |->
                   LET rs == RowsOfCountry(d.rows, cs[i])
                   IN  [country |-> cs[i],
                        life_eval |-> Mean(Col(rs, Life)),
                        gdp |-> Mean(Col(rs, Gdp))]]
    IN  SelectSeq(all, LAMBDA r : ~IsNaN(r.life_eval) /\ ~IsNaN(r.gdp))

LifeEval(r) == r.life_eval
GdpMean(r) == r.gdp

\* line 354: (cl7["gdp"] < gdp_median) & (cl7["life_eval"] > life_median)
InQuadrant(r, gdp_median, life_median) ==
    Lt(r.gdp, gdp_median) /\ Gt(r.life_eval, life_median)

\* lines 350-357
HighLifeLowGdp(c) ==
    LET gdp_median  == median(Col(c, GdpMean))
        life_median == median(Col(c, LifeEval))
        q == SelectSeq(c, LAMBDA r : InQuadrant(r, gdp_median, life_median))
    IN  sort_values(q, Col(q, LifeEval), FALSE)

\* a mutant of P7Status: one message for both empty states
P7StatusMerged(c) ==
    IF c = <<>> \/ HighLifeLowGdp(c) = <<>> THEN "no_data" ELSE "ok"

\* lines 347-371: st.warning, st.info or the chart
P7Status(c) ==
    IF c = <<>> THEN "no_data"
    ELSE IF HighLifeLowGdp(c) = <<>> THEN "empty_quadrant"
    ELSE "ok"

\* lines 394-421: P8's country means, as country_full (line 419)
Cl8(d) == CountryFull(d)

HighLife == "High life evaluation"
LowLife == "Low life evaluation"

\* lines 424-427: at the median or above is High
LifeGroup(x, life_median) == IF Ge(x, life_median) THEN HighLife ELSE LowLife

\* lines 429-439: the mean of each factor in each group that has countries,
\* High before Low, melted: factor by factor, the groups within
LongGroup(c) ==
    LET life_median == median(Col(c, LAMBDA r : r.life_eval))
        Members(g)  == SelectSeq(c, LAMBDA r :
                           LifeGroup(r.life_eval, life_median) = g)
        groups == SelectSeq(<<HighLife, LowLife>>,
                            LAMBDA g : Members(g) # <<>>)
    IN  Concat([k \in 1..Len(FactorSeq) |->
                   [i \in 1..Len(groups) |->
                       [group |-> groups[i], Factor |-> FactorSeq[k],
                        value |-> Mean([j \in 1..Len(Members(groups[i])) |->
                                     Members(groups[i])[j].fac[FactorSeq[k]]])]]])

\* lines 481-482: the yearly mean of each factor, melted: factor by factor,
\* the years within
LongYearly(d) ==
    LET ys == SetToSortedSeq(YearsOf(d.rows))
    IN  Concat([k \in 1..Len(FactorSeq) |->
                   [i \in 1..Len(ys) |->
                       LET rs == RowsOfYear(d.rows, ys[i])
                       IN  [year |-> ys[i], Factor |-> FactorSeq[k],
                            value |-> Mean([j \in 1..Len(rs) |->
                                              rs[j].fac[FactorSeq[k]]])]]])

\* lines 390-422
P8Status(d) ==
    IF MissingCols(d) # {} THEN "skipped_missing"
    ELSE IF Cl8(d) = <<>> THEN "no_data"
    ELSE "ok"

\* lines 477-480
P9Status(d) == IF MissingCols(d) # {} THEN "skipped_missing" ELSE "ok"

-----------------------------------------------------------------------------
(* Map *)

\* lines 509-516
MapDf(d) == SelectSeq(CountryMeans(d), LAMBDA r : ~IsNaN(r.avg_life_eval))

-----------------------------------------------------------------------------
(* The widgets *)

\* line 37: st.sidebar.slider("Top N (rankings)", 5, 25, 15, step 5)
TopNMin == 5
TopNMax == 25
TopNStep == 5
\* line 38: st.sidebar.slider("Top N (changes)", 5, 25, 15, step 5)
ChangeNMin == 5
ChangeNMax == 25
ChangeNStep == 5
\* line 41: st.sidebar.slider("Max countries to show", 3, 15, 8, 1)
MaxCountriesMin == 3
MaxCountriesMax == 15

TopNRange == {n \in TopNMin..TopNMax : (n - TopNMin) % TopNStep = 0}
ChangeNRange == {n \in ChangeNMin..ChangeNMax : (n - ChangeNMin) % ChangeNStep = 0}
MaxCountriesRange == MaxCountriesMin..MaxCountriesMax

\* the longest selection the user makes
MaxSel == 5

\* the options from the k-th on, then the ones before it
Rotate(s, k) == SubSeq(s, k, Len(s)) \o SubSeq(s, 1, k - 1)

\* lines 29-33: the multiselect returns the chosen options in the order the
\* user chose them; here up to n options taken in a row from any option on,
\* upwards or downwards, going round at the end of the list
Selections(options, n) ==
    {SubSeq(Rotate(o, k), 1, m) :
        o \in {options, Reverse(options)},
        k \in 1..Len(options), m \in 0..Min2(n, Len(options))} \cup {<<>>}

-----------------------------------------------------------------------------
(* The datasets *)

Seqs(S, n) == UNION {[1..k -> S] : k \in 1..n}

\* a dataset of the year family has at most MaxRows rows
MaxRows == 3

YearRows ==
    {MkRow(c, y, Num(l), Num(1)) : c \in {1, 2}, y \in {YearLow, YearHigh},
                                   l \in {3, 4}}

YearFamily == {MkDf(FactorCols, rows) : rows \in Seqs(YearRows, MaxRows)}

\* Finland and Chad, 2019 and 2024
EndToEnd ==
    <<MkRow(1, 2019, <<35, 10>>, Num(1)), MkRow(2, 2019, <<78, 10>>, Num(2)),
      MkRow(1, 2024, <<34, 10>>, Num(1)), MkRow(2, 2024, <<79, 10>>, Num(2))>>

\* a year between the two, a missing life evaluation, a third country, and a
\* country with several rows in a year
Mixed ==
    <<MkRow(1, 2019, Num(3), Num(2)), MkRow(2, 2019, NaN, Num(1)),
      MkRow(3, 2021, Num(5), NaN),    MkRow(1, 2021, Num(4), Num(2)),
      MkRow(2, 2024, Num(4), Num(1)), MkRow(1, 2024, Num(2), Num(3)),
      MkRow(1, 2024, Num(5), Num(3))>>

CoreRows == {EndToEnd, Mixed}

Core == {MkDf(FactorCols, rows) : rows \in CoreRows}

\* the datasets with one "Explained by" column (or two) absent
ColFamily ==
    {MkDf(FactorCols \ gone, rows) :
        gone \in {g \in SUBSET FactorCols : Cardinality(g) \in {1, 2}},
        rows \in CoreRows \cup {SubSeq(EndToEnd, 1, 2)}}

\* the rank family has up to RankCountries countries, one 2019 row each
RankCountries == 6

RankFamily ==
    {MkDf(FactorCols, [i \in 1..k |-> MkRow(i, YearLow, l[i], Num(1))]) :
        k \in 1..RankCountries,
        l \in [1..RankCountries -> {NaN, Num(1), Num(2)}]}

\* the quadrant family has up to QuadCountries countries, one 2019 row each,
\* and an empty 2024 row of the first country
QuadCountries == 3

QuadFamily ==
    {MkDf(FactorCols,
          [i \in 1..k |-> MkRow(i, YearLow, l[i], g[i])]
              \o <<MkRow(1, YearHigh, NaN, NaN)>>) :
        k \in 1..QuadCountries,
        l \in [1..QuadCountries -> {NaN, Num(1), Num(2)}],
        g \in [1..QuadCountries -> {NaN, Num(1), Num(2)}]}

\* the correlation family has up to CorrCountries countries, one 2019 row
\* each with a life evaluation, a GDP (or none) and a social support, and a
\* country 0 with a GDP and no life evaluation in 2019 and 2024
CorrCountries == 3

CorrRow(c, v) ==
    [MkRow(c, YearLow, v[1], v[2]) EXCEPT !.fac["social_support"] = v[3]]

\* the life evaluation, GDP and social support of a row of the family
CorrValues ==
    {<<Num(1), NaN, Num(1)>>,    <<Num(2), NaN, Num(2)>>,
     <<Num(1), Num(1), Num(1)>>, <<Num(1), Num(1), Num(2)>>,
     <<Num(1), Num(2), Num(1)>>, <<Num(2), Num(1), Num(1)>>,
     <<Num(2), Num(2), Num(1)>>, <<Num(2), Num(2), Num(2)>>}

CorrFamily ==
    {MkDf(FactorCols,
          [i \in 1..Len(v) |-> CorrRow(i, v[i])]
              \o <<MkRow(0, YearLow, NaN, Num(1)),
                   MkRow(0, YearHigh, NaN, Num(1))>>) :
        v \in Seqs(CorrValues, CorrCountries)}

-----------------------------------------------------------------------------
(* The run *)

NoStatus == [a \in Analyses |-> "not_run"]
NoMissing == [a \in Analyses |-> {}]

\* the script starts on a dataset of D with the widgets at some of their
\* values: a year range of the slider's options (lines 18-23), a selection
\* of at most selLen of the countries of the subset (lines 28-33), and the
\* chart settings (lines 37-41)
InitWith(D, selLen, TopNs, ChangeNs, Caps) ==
    /\ df \in D
    /\ \E lo \in Range(years), hi \in Range(years) :
           /\ lo <= hi
           /\ year_min = lo
           /\ year_max = hi
           /\ selection \in
                  Selections(CountryOptions(FilterYears(df, lo, hi)), selLen)
    /\ top_n \in TopNs \cap TopNRange
    /\ change_n \in ChangeNs \cap ChangeNRange
    /\ max_countries \in Caps \cap MaxCountriesRange
    /\ pc = "sidebar"
    /\ df_f = MkDf({}, <<>>)
    /\ selected_countries = <<>>
    /\ cap_warning = FALSE
    /\ status = NoStatus
    /\ missing = NoMissing
    /\ global_series = <<>>
    /\ country_series = <<>>
    /\ plot_df = <<>>
    /\ country_avg = <<>>
    /\ top_countries = <<>>
    /\ bottom_countries = <<>>
    /\ change_df = <<>>
    /\ inc = <<>>
    /\ dec = <<>>
    /\ country_full = <<>>
    /\ fig4_df = <<>>
    /\ long_df = <<>>
    /\ corr_df = <<>>
    /\ cl7 = <<>>
    /\ high_life_low_gdp = <<>>
    /\ long_group = <<>>
    /\ long_yearly = <<>>
    /\ map_df = <<>>

Init ==
    InitWith(Core \cup YearFamily \cup ColFamily, 1,
             {TopNMin}, {ChangeNMin}, {MaxCountriesMin})

inputs == <<df, year_min, year_max, selection, top_n, change_n, max_countries>>
sidebar_vars == <<df_f, selected_countries, cap_warning>>
p1_vars == <<global_series, country_series, plot_df>>
p2_vars == <<country_avg, top_countries, bottom_countries>>
p3_vars == <<change_df, inc, dec>>
drivers_vars == <<country_full, fig4_df, long_df, corr_df>>
groups_vars == <<cl7, high_life_low_gdp, long_group, long_yearly>>

\* lines 15-50: the sidebar
Sidebar ==
    /\ pc = "sidebar"
    /\ df_f' = FilterYears(df, year_min, year_max)
    /\ cap_warning' = CapExceeded(selection, max_countries)
    /\ selected_countries' = CapSelection(selection, max_countries)
    /\ pc' = "tab1"
    /\ UNCHANGED <<inputs, status, missing, p1_vars, p2_vars, p3_vars,
                   drivers_vars, groups_vars, map_df>>

\* lines 59-96: P1
Tab1 ==
    /\ pc = "tab1"
    /\ global_series' = GlobalSeries(df_f)
    /\ country_series' = IF selected_countries # <<>>
                          THEN CountrySeries(df_f, selected_countries)
                          ELSE <<>>
    /\ plot_df' = global_series' \o country_series'
    /\ status' = [status EXCEPT !["P1"] = "ok"]
    /\ pc' = "tab2"
    /\ UNCHANGED <<inputs, sidebar_vars, missing, p2_vars, p3_vars,
                   drivers_vars, groups_vars, map_df>>

\* lines 99-126: P2
Tab2 ==
    /\ pc = "tab2"
    /\ country_avg' = CountryAvg(df_f)
    /\ top_countries' = TopCountries(country_avg', top_n)
    /\ bottom_countries' = BottomCountries(country_avg', top_n)
    /\ status' = [status EXCEPT !["P2"] = "ok"]
    /\ pc' = "tab3"
    /\ UNCHANGED <<inputs, sidebar_vars, missing, p1_vars, p3_vars,
                   drivers_vars, groups_vars, map_df>>

\* st.stop(): the script run ends here, whatever tab comes next
Stop(next) == "stopped"

\* lines 128-184: P3
Tab3 ==
    /\ pc = "tab3"
    /\ IF YearsMissing(df_f)
       THEN /\ status' = [status EXCEPT !["P3"] = "unavailable_years"]
            /\ pc' = Stop("tab4")
            /\ UNCHANGED p3_vars
       ELSE IF ChangeDf(df_f) = <<>>
       THEN /\ status' = [status EXCEPT !["P3"] = "unavailable_pairs"]
            /\ pc' = Stop("tab4")
            /\ UNCHANGED p3_vars
       ELSE /\ change_df' = ChangeDf(df_f)
            /\ inc' = Inc(change_df', change_n)
            /\ dec' = Dec(change_df', change_n)
            /\ status' = [status EXCEPT !["P3"] = "ok"]
            /\ pc' = "tab4"
    /\ UNCHANGED <<inputs, sidebar_vars, missing, p1_vars, p2_vars,
                   drivers_vars, groups_vars, map_df>>

Drivers == {"P4", "P5", "P6"}

\* lines 187-319: the Drivers tab
Tab4 ==
    /\ pc = "tab4"
    /\ IF MissingCols(df_f) # {}
       THEN /\ status' = [a \in Analyses |->
                            IF a \in Drivers THEN "missing_columns"
                            ELSE status[a]]
            /\ missing' = [a \in Analyses |->
                             IF a \in Drivers THEN MissingCols(df_f)
                             ELSE missing[a]]
            /\ pc' = Stop("tab5")
            /\ UNCHANGED drivers_vars
       ELSE IF CountryFull(df_f) = <<>>
       THEN /\ status' = [a \in Analyses |->
                            IF a \in Drivers THEN "no_data" ELSE status[a]]
            /\ pc' = Stop("tab5")
            /\ UNCHANGED <<drivers_vars, missing>>
       ELSE /\ country_full' = CountryFull(df_f)
            /\ fig4_df' = P4Rows(country_full')
            /\ long_df' = LongDf(country_full')
            /\ corr_df' = CorrDf(country_full')
            /\ status' = [a \in Analyses |->
                            IF a \in Drivers THEN "ok" ELSE status[a]]
            /\ pc' = "tab5"
            /\ UNCHANGED missing
    /\ UNCHANGED <<inputs, sidebar_vars, p1_vars, p2_vars, p3_vars,
                   groups_vars, map_df>>

\* lines 322-503: the Groups tab
Tab5 ==
    /\ pc = "tab5"
    /\ IF "gdp" \notin df_f.columns
       THEN \* line 333: .agg on a column that is not there raises KeyError
            /\ status' = [status EXCEPT !["P7"] = "raised"]
            /\ pc' = "crashed"
            /\ UNCHANGED <<groups_vars, missing>>
       ELSE /\ cl7' = Cl7(df_f)
            /\ high_life_low_gdp' =
                   IF cl7' = <<>> THEN <<>> ELSE HighLifeLowGdp(cl7')
            /\ status' = [status EXCEPT !["P7"] = P7Status(cl7'),
                                        !["P8"] = P8Status(df_f),
                                        !["P9"] = P9Status(df_f)]
            /\ missing' = [missing EXCEPT !["P8"] = MissingCols(df_f),
                                          !["P9"] = MissingCols(df_f)]
            /\ long_group' = IF P8Status(df_f) = "ok"
                             THEN LongGroup(Cl8(df_f)) ELSE <<>>
            /\ long_yearly' = IF P9Status(df_f) = "ok"
                              THEN LongYearly(df_f) ELSE <<>>
            /\ pc' = "tab6"
    /\ UNCHANGED <<inputs, sidebar_vars, p1_vars, p2_vars, p3_vars,
                   drivers_vars, map_df>>

\* lines 505-552: the map
Tab6 ==
    /\ pc = "tab6"
    /\ IF MapDf(df_f) = <<>>
       THEN /\ status' = [status EXCEPT !["Map"] = "no_data"]
            /\ pc' = Stop("done")
            /\ UNCHANGED map_df
       ELSE /\ map_df' = MapDf(df_f)
            /\ status' = [status EXCEPT !["Map"] = "ok"]
            /\ pc' = "done"
    /\ UNCHANGED <<inputs, sidebar_vars, missing, p1_vars, p2_vars, p3_vars,
                   drivers_vars, groups_vars>>

Next == Sidebar \/ Tab1 \/ Tab2 \/ Tab3 \/ Tab4 \/ Tab5 \/ Tab6

Spec == Init /\ [][Next]_vars

InitRank ==
    InitWith(Core \cup RankFamily, 0,
             {TopNMin, TopNMin + TopNStep}, {ChangeNMin},
             {MaxCountriesMin})

\* the datasets of the rank family without ties or missing values, any
\* selection of at most MaxSel countries, and three values of the cap
InitCap ==
    InitWith(Core \cup {d \in RankFamily :
                           \A i \in 1..Len(d.rows) : d.rows[i].life = Num(1)},
             MaxSel, {TopNMin}, {ChangeNMin},
             MaxCountriesMin..(MaxCountriesMin + 2))

SpecCap == InitCap /\ [][Next]_vars

SpecRank == InitRank /\ [][Next]_vars

InitQuad ==
    InitWith(Core \cup QuadFamily, 1, {TopNMin}, {ChangeNMin},
             {MaxCountriesMin})

SpecQuad == InitQuad /\ [][Next]_vars

InitCorr ==
    InitWith(Core \cup CorrFamily, 0, {TopNMin}, {ChangeNMin},
             {MaxCountriesMin})

SpecCorr == InitCorr /\ [][Next]_vars

\* the run is over
Ended == pc \in {"done", "stopped", "crashed"}

-----------------------------------------------------------------------------
(* Properties *)

Count(rows, r) == Cardinality({i \in 1..Len(rows) : rows[i] = r})

\* the countries with a row of year y
CountriesIn(rows, y) == {rows[i].country : i \in {j \in 1..Len(rows) : rows[j].year = y}}

\* the countries with a row in 2019 and a row in 2024
BothYears(rows) == CountriesIn(rows, YearLow) \cap CountriesIn(rows, YearHigh)

Unavailable == {"unavailable_years", "unavailable_pairs"}

\* C1: when the run is over, every analysis has been run and has reported a
\* result or a status of its own, whatever an earlier analysis reported.
C1_EveryAnalysisRuns == Ended => \A a \in Analyses : status[a] # "not_run"

\* the "Explained by" columns an analysis reads: P7 the GDP column (lines
\* 331-336), the Drivers tab, P8 and P9 all six (lines 190-217, 380-404,
\* 469-481)
Needs(a) == IF a = "P7" THEN {"gdp"} ELSE FactorCols

WithAllColumns(d) == MkDf(FactorCols, d.rows)

\* C2: with one "Explained by" column absent, when the run is over each of
\* P4-P9 that needs the column has reported a skip naming it, and P1, P2 and
\* P3 have the results they have with the column present.
C2_MissingColumnSkips ==
    (Ended /\ Cardinality(MissingCols(df)) = 1) =>
        /\ \A a \in {"P4", "P5", "P6", "P7", "P8", "P9"} :
               Needs(a) \cap MissingCols(df) # {} =>
                   /\ status[a] \in {"missing_columns", "skipped_missing"}
                   /\ MissingCols(df) \subseteq missing[a]
        /\ LET f == FilterYears(WithAllColumns(df), year_min, year_max)
           IN  /\ global_series = GlobalSeries(f)
               /\ country_avg = CountryAvg(f)
               /\ status["P3"] = "ok" => change_df = ChangeDf(f)

\* C3 (state part): after the filter, every row occurs in df_f as often as in
\* df when its year is in [year_min, year_max], and not at all otherwise.
C3_SubsetExact ==
    pc # "sidebar" =>
        /\ year_min <= year_max
        /\ df_f.columns = df.columns
        /\ \A r \in Range(df.rows) \cup Range(df_f.rows) :
               Count(df_f.rows, r) =
                   IF year_min <= r.year /\ r.year <= year_max
                   THEN Count(df.rows, r) ELSE 0

\* C3: the Working Subset holds exactly the rows of the dataset whose year is
\* in the range, each as often as the dataset does, and no step of the run
\* changes the dataset.
C3_FilterExact == [](C3_SubsetExact) /\ [][df' = df]_vars

\* a range that leaves rows out and keeps a row twice
C3_Witness ==
    /\ pc = "tab1"
    /\ Len(df_f.rows) < Len(df.rows)
    /\ \E r \in Range(df_f.rows) : Count(df_f.rows, r) = 2

C5_CountryCap ==
    /\ pc # "sidebar" =>
           /\ cap_warning => (pc = "tab1" \/ status["P1"] = "ok")
           /\ IF Len(selection) > max_countries
              THEN /\ Len(selected_countries) = max_countries
                   /\ \A i \in 1..max_countries :
                          selected_countries[i] = selection[i]
                   /\ cap_warning
              ELSE /\ selected_countries = selection
                   /\ ~cap_warning
    /\ status["P1"] = "ok" =>
           CountriesOf(country_series) =
               {selection[i] : i \in 1..Min2(Len(selection), max_countries)}

\* a selection longer than the cap, not in the order of the options
C5_Witness ==
    /\ status["P1"] = "ok"
    /\ Len(selection) > max_countries
    /\ selection[1] > selection[2]
    /\ cap_warning

\* C6: P3 reports unavailable for a missing year exactly when the subset has
\* no row of 2019 or none of 2024, and unavailable for no match exactly when
\* it has both and no country has a row in each; then it has no table; in
\* every other case it reports ok with a non-empty paired table.
C6_P3Unavailable ==
    status["P3"] # "not_run" =>
        LET y19 == \E i \in 1..Len(df_f.rows) : df_f.rows[i].year = YearLow
            y24 == \E i \in 1..Len(df_f.rows) : df_f.rows[i].year = YearHigh
        IN  /\ status["P3"] \in Unavailable \cup {"ok"}
            /\ status["P3"] = "unavailable_years" <=> (~y19 \/ ~y24)
            /\ status["P3"] = "unavailable_pairs" <=>
                   (y19 /\ y24 /\ BothYears(df_f.rows) = {})
            /\ status["P3"] \in Unavailable =>
                   change_df = <<>> /\ inc = <<>> /\ dec = <<>>
            /\ status["P3"] = "ok" => change_df # <<>> /\ plot_change # <<>>

\* both years in the subset, and no country in both
C6_Witness ==
    /\ status["P3"] = "unavailable_pairs"
    /\ {YearLow, YearHigh} \subseteq YearsOf(df_f.rows)

\* C7: with both years in the subset, the countries of the paired table are
\* the countries with a row in 2019 and a row in 2024; a paired row holds a
\* 2019 value and a 2024 value of its country, every such pair of rows gives
\* a paired row, and its change is the 2024 value minus the 2019 value.
C7_P3InnerJoin ==
    (status["P3"] # "not_run" /\ ~YearsMissing(df_f)) =>
        /\ CountriesOf(change_df) = BothYears(df_f.rows)
        /\ \A c \in BothYears(df_f.rows) :
               Len(RowsOfCountry(change_df, c)) =
                   Len(RowsOfYear(RowsOfCountry(df_f.rows, c), YearLow))
                     * Len(RowsOfYear(RowsOfCountry(df_f.rows, c), YearHigh))
        /\ \A k \in 1..Len(change_df) :
               LET r == change_df[k]
               IN  /\ \E i, j \in 1..Len(df_f.rows) :
                          /\ df_f.rows[i].country = r.country
                          /\ df_f.rows[j].country = r.country
                          /\ df_f.rows[i].year = YearLow
                          /\ df_f.rows[j].year = YearHigh
                          /\ df_f.rows[i].life = r.life_2019
                          /\ df_f.rows[j].life = r.life_2024
                   /\ IF IsNaN(r.life_2019) \/ IsNaN(r.life_2024)
                      THEN IsNaN(r.change)
                      ELSE /\ ~IsNaN(r.change)
                           /\ r.change[1] * r.life_2019[2] * r.life_2024[2] =
                                  r.change[2] *
                                    (r.life_2024[1] * r.life_2019[2]
                                       - r.life_2019[1] * r.life_2024[2])

\* one country in both years with a change, another in 2019 only
C7_Witness ==
    /\ status["P3"] = "ok"
    /\ \E c \in CountriesIn(df_f.rows, YearLow) : c \notin CountriesOf(change_df)
    /\ \E k \in 1..Len(change_df) : Gt(change_df[k].change, Num(0))

Zero == Num(0)

\* C8: the increase list holds the paired rows with a positive change, the
\* largest first, at most change_n of them; the decrease list the paired
\* rows with a negative change, the most negative first, at most change_n;
\* with fewer than change_n of them a list holds them all, and no row whose
\* change has the other sign or is missing fills it.  (A row without change
\* is let pass in either list.)
C8_P3TopChanges ==
    status["P3"] = "ok" =>
        LET pos == SelectSeq(change_df, LAMBDA r : Gt(r.change, Zero))
            neg == SelectSeq(change_df, LAMBDA r : Lt(r.change, Zero))
        IN  /\ Len(inc) <= change_n
            /\ Len(dec) <= change_n
            /\ Len(inc) >= Min2(change_n, Len(pos))
            /\ Len(dec) >= Min2(change_n, Len(neg))
            /\ \A i \in 1..Len(inc) : Ge(inc[i].change, Zero)
            /\ \A i \in 1..Len(dec) : Ge(Zero, dec[i].change)
            /\ \A i, j \in 1..Len(inc) : i < j => ~Lt(inc[i].change, inc[j].change)
            /\ \A i, j \in 1..Len(dec) : i < j => ~Gt(dec[i].change, dec[j].change)

\* the mean life evaluation of country c over the Working Subset
MeanLifeOf(c) == Mean(Col(RowsOfCountry(df_f.rows, c), Life))
MeanGdpOf(c) == Mean(Col(RowsOfCountry(df_f.rows, c), Gdp))

\* x ranks no lower than y: a missing mean ranks below every number
NotBelow(x, y) == IsNaN(y) \/ (~IsNaN(x) /\ ~Lt(x, y))

\* C9: with k countries in the subset, the top list and the bottom list have
\* min(top_n, k) rows each, of different countries with their mean life
\* evaluation; both run from the higher mean to the lower; no country
\* outside the top list ranks above one in it and none outside the bottom
\* list below one in it; the two lists share 2 * min(top_n, k) - k
\* countries when k < 2 * top_n (none otherwise) and plot_rank holds both
\* lists whole.
C9_P2TopBottom ==
    status["P2"] = "ok" =>
        LET cs == CountriesOf(df_f.rows)
            k  == Cardinality(cs)
            m  == Min2(top_n, k)
            T  == CountriesOf(top_countries)
            B  == CountriesOf(bottom_countries)
            Ordered(l) ==
                \A i, j \in 1..Len(l) :
                    i < j => NotBelow(l[i].avg_life_eval, l[j].avg_life_eval)
            Means(l) ==
                \A i \in 1..Len(l) :
                    l[i].avg_life_eval = MeanLifeOf(l[i].country)
        IN  /\ Len(top_countries) = m /\ Cardinality(T) = m /\ T \subseteq cs
            /\ Len(bottom_countries) = m /\ Cardinality(B) = m /\ B \subseteq cs
            /\ Means(top_countries) /\ Means(bottom_countries)
            /\ Ordered(top_countries) /\ Ordered(bottom_countries)
            /\ \A t \in T : \A c \in cs \ T :
                   NotBelow(MeanLifeOf(t), MeanLifeOf(c))
            /\ \A b \in B : \A c \in cs \ B :
                   NotBelow(MeanLifeOf(c), MeanLifeOf(b))
            /\ Cardinality(T \cap B) = IF k < 2 * top_n THEN 2 * m - k ELSE 0
            /\ Len(plot_rank) = 2 * m
            /\ \A i \in 1..m :
                   /\ plot_rank[i].Group = "Top countries"
                   /\ plot_rank[m + i].Group = "Bottom countries"

\* more countries than top_n, the lists overlapping without being the same,
\* a tie and a missing mean among the countries
C9_Witness ==
    /\ status["P2"] = "ok"
    /\ Len(country_avg) > top_n
    /\ top_countries[1].country # bottom_countries[1].country
    /\ \E i \in 1..Len(country_avg) : IsNaN(country_avg[i].avg_life_eval)
    /\ \E i, j \in 1..Len(country_avg) :
           i # j /\ Eq(country_avg[i].avg_life_eval, country_avg[j].avg_life_eval)

\* C10: P7 reports no data exactly when no country has both a mean GDP and
\* a mean life evaluation; it reports the empty quadrant exactly when there
\* are such countries and none has its GDP below their median GDP and its
\* life evaluation above their median life evaluation; otherwise it is ok
\* and emits exactly the countries of the quadrant.
C10_P7EmptyStates ==
    status["P7"] \notin {"not_run", "raised"} =>
        LET cs    == CountriesOf(df_f.rows)
            valid == {c \in cs : ~IsNaN(MeanLifeOf(c)) /\ ~IsNaN(MeanGdpOf(c))}
            vs    == SetToSortedSeq(valid)
            gm    == median([i \in 1..Len(vs) |-> MeanGdpOf(vs[i])])
            lm    == median([i \in 1..Len(vs) |-> MeanLifeOf(vs[i])])
            Q     == {c \in valid :
                         Lt(MeanGdpOf(c), gm) /\ Gt(MeanLifeOf(c), lm)}
        IN  /\ status["P7"] = "no_data" <=> valid = {}
            /\ status["P7"] = "empty_quadrant" <=> (valid # {} /\ Q = {})
            /\ status["P7"] = "ok" <=> Q # {}
            /\ CountriesOf(high_life_low_gdp) = Q
            /\ Len(high_life_low_gdp) = Cardinality(Q)

\* countries with both means and none in the quadrant, one country left
\* out for a missing GDP
C10_Witness ==
    /\ status["P7"] = "empty_quadrant"
    /\ Len(cl7) >= 2
    /\ Len(cl7) < Cardinality(CountriesOf(df_f.rows))

MeanFactorOf(c, f) ==
    Mean([i \in 1..Len(RowsOfCountry(df_f.rows, c)) |->
             RowsOfCountry(df_f.rows, c)[i].fac[f]])

\* the countries of the subset with a mean of factor f and a mean life
\* evaluation
Paired(f) ==
    {c \in CountriesOf(df_f.rows) :
        ~IsNaN(MeanFactorOf(c, f)) /\ ~IsNaN(MeanLifeOf(c))}

\* the factors with a row in P5's output
FactorsIn(rows) == {rows[i].Factor : i \in 1..Len(rows)}

\* the rows run from the highest correlation to the lowest
CorrelationDescending(rows) ==
    \A i, j \in 1..Len(rows) :
        i < j => Ge(rows[i].Correlation, rows[j].Correlation)

Varies(f) ==
    /\ \E c, e \in Paired(f) : ~Eq(MeanFactorOf(c, f), MeanFactorOf(e, f))
    /\ \E c, e \in Paired(f) : ~Eq(MeanLifeOf(c), MeanLifeOf(e))

AllLifeMissing(c) ==
    \A i \in 1..Len(df_f.rows) :
        df_f.rows[i].country = c => IsNaN(df_f.rows[i].life)

\* the life evaluation is missing in every row of the subset of year y
AllLifeMissingInYear(y) ==
    \A i \in 1..Len(df_f.rows) :
        df_f.rows[i].year = y => IsNaN(df_f.rows[i].life)

\* C12: a group without a non-missing value is dropped from a group-by
\* mean: once P2 has run, no country whose life evaluation is missing in
\* every row of the subset is in the top list or in the bottom list, and
\* once P1 has run, no year whose life evaluations are all missing has a
\* point in the global average series, and no point of it is missing.
C12_EmptyGroupsDropped ==
    /\ status["P2"] = "ok" =>
           \A c \in CountriesOf(top_countries \o bottom_countries) :
               ~AllLifeMissing(c)
    /\ status["P1"] = "ok" =>
           \A i \in 1..Len(global_series) :
               /\ ~AllLifeMissingInYear(global_series[i].year)
               /\ ~IsNaN(global_series[i].life_eval)

=============================================================================
